---- MODULE Spec2Model ----
(***************************************************************************)
(* Model of the PDF sorting pipeline of sort_pdfs.py: enumerate the input  *)
(* folder, extract (cache-aware, parallel), topic-model in one bulk call,  *)
(* place sequentially with duplicate suppression, persist index and hash   *)
(* cache.  File names, topic labels and texts are sequences of one-        *)
(* character strings so that splitext, the topic sanitiser, strip and the  *)
(* collision resolver are computed as the code computes them.              *)
(***************************************************************************)
EXTENDS Integers, Sequences, FiniteSets, TLC

(* ------------------------------ bounds --------------------------------- *)
\* number of times the script is started in one behaviour
MaxRuns == 2
\* number of changes the environment makes to the folder or the cache files
MaxEdits == 1
\* number of placements that may raise in one run
MaxFails == 1
\* length of the placement sequences of the placement-engine specification
MaxPlace == 3

(* --------------------------- program constants ------------------------- *)
SOURCE_FOLDER == "./pdfs"
OUTPUT_FOLDER == "./sorted_pdfs"
\* topic.replace(...)[:50]
TopicCut == 50

(* ------------------------------ inputs --------------------------------- *)
F_A  == <<"a", ".", "p", "d", "f">>
F_A1 == <<"a", "_", "1", ".", "p", "d", "f">>
F_B  == <<"b", ".", "P", "D", "F">>
F_N  == <<"n", ".", "t", "x", "t">>
\* os.listdir order of the names that can be in the source folder
AllNames == <<F_A, F_A1, F_B, F_N>>
\* the names the environment gives to PDF files
PdfNames == {F_A, F_A1, F_B}

\* A PDF as the extractor sees it: whether pdfplumber can open it, and the
\* concatenation `page_text + " "` of its sampled pages.
RAW_EN    == [ok |-> TRUE,  raw |-> <<"h", "i", " ">>]
RAW_NUM   == [ok |-> TRUE,  raw |-> <<"7", " ">>]
RAW_BLANK == [ok |-> TRUE,  raw |-> <<" ">>]
CORRUPT   == [ok |-> FALSE, raw |-> <<>>]
Contents == {RAW_EN, RAW_NUM, RAW_BLANK, CORRUPT}
\* the file that is not a PDF
NOTE_FILE == [ok |-> FALSE, raw |-> <<"n">>]

\* hashes[i] is None
NoneHash == <<>>

(* --------------------------- pure functions ---------------------------- *)
Lower(c) ==
  CASE c = "P" -> "p" [] c = "D" -> "d" [] c = "F" -> "f" [] OTHER -> c

LowerSeq(s) == [k \in 1..Len(s) |-> Lower(s[k])]

EndsWith(s, suf) ==
  /\ Len(s) >= Len(suf)
  /\ SubSeq(s, Len(s) - Len(suf) + 1, Len(s)) = suf

\* f.lower().endswith('.pdf')
IsPdf(f) == EndsWith(LowerSeq(f), <<".", "p", "d", "f">>)

\* text.strip()
RECURSIVE Strip(_)
Strip(s) ==
  IF s = <<>> THEN s
  ELSE IF Head(s) = " " THEN Strip(Tail(s))
  ELSE IF s[Len(s)] = " " THEN Strip(SubSeq(s, 1, Len(s) - 1))
  ELSE s

\* extract_text: the text, and whether the failure branch logged an error
extract_text(c) ==
  IF c.ok THEN [text |-> Strip(c.raw), failed |-> FALSE]
  ELSE [text |-> <<>>, failed |-> TRUE]

IsDigit(c) == c \in {"0", "1", "2", "3", "4", "5", "6", "7", "8", "9"}

\* langdetect.detect raises on a text without letters
DetectRaises(text) == \A k \in 1..Len(text) : IsDigit(text[k]) \/ text[k] = " "

detect_language(text) == IF DetectRaises(text) THEN "unknown" ELSE "en"

hash_text(text) == <<"sha256", text>>

\* process_pdf(path) on a file with content c
process_pdf(c) ==
  LET text == extract_text(c).text IN
  IF Strip(text) = <<>>
  THEN [text |-> <<>>, language |-> "unknown", hash |-> NoneHash]
  ELSE [text |-> text, language |-> detect_language(text), hash |-> hash_text(text)]

Digit(d) ==
  CASE d = 0 -> "0" [] d = 1 -> "1" [] d = 2 -> "2" [] d = 3 -> "3" [] d = 4 -> "4"
    [] d = 5 -> "5" [] d = 6 -> "6" [] d = 7 -> "7" [] d = 8 -> "8" [] d = 9 -> "9"

\* str(counter)
RECURSIVE Str(_)
Str(n) == IF n < 10 THEN <<Digit(n)>> ELSE Str(n \div 10) \o <<Digit(n % 10)>>

\* index of the dot where os.path.splitext splits, 0 when there is none
SplitAt(f) ==
  LET dots == {k \in 1..Len(f) : f[k] = "."} IN
  IF dots = {} THEN 0
  ELSE LET d == CHOOSE k \in dots : \A m \in dots : m <= k IN
       IF \E m \in 1..(d - 1) : f[m] # "." THEN d ELSE 0

splitext(f) ==
  IF SplitAt(f) = 0 THEN [base |-> f, ext |-> <<>>]
  ELSE [base |-> SubSeq(f, 1, SplitAt(f) - 1), ext |-> SubSeq(f, SplitAt(f), Len(f))]

\* os.path.join(dest_folder, name)
JoinPath(dest_folder, name) == Append(dest_folder, name)

\* os.path.basename
basename(p) == p[Len(p)]

RECURSIVE Probe(_, _, _, _, _)
Probe(dest_folder, parts, candidate, counter, used) ==
  IF candidate \in used
  THEN Probe(dest_folder, parts,
             JoinPath(dest_folder, parts.base \o <<"_">> \o Str(counter) \o parts.ext),
             counter + 1, used)
  ELSE candidate

\* get_unique_path without its while loop
get_unique_path_no_probe(dest_folder, file_name, used) == JoinPath(dest_folder, file_name)

\* get_unique_path: the path returned; the caller's set gains it
get_unique_path(dest_folder, file_name, used) ==
  Probe(dest_folder, splitext(file_name), JoinPath(dest_folder, file_name), 1, used)

\* topic.replace(" ", "_").replace("/", "_")[:50]
safe_topic(topic) ==
  LET rep == [k \in 1..Len(topic) |-> IF topic[k] \in {" ", "/"} THEN "_" ELSE topic[k]]
  IN SubSeq(rep, 1, IF Len(rep) < TopicCut THEN Len(rep) ELSE TopicCut)

\* os.path.join(OUTPUT_FOLDER, language, safe_topic)
dest_folder_of(language, topic) == <<OUTPUT_FOLDER, language, safe_topic(topic)>>


(* ------------------------- the external model -------------------------- *)
\* a topic label of 51 characters with a space and a path separator in it
TOPIC_0 ==
  [k \in 1..51 |-> IF k = 2 THEN " " ELSE IF k = 4 THEN "/" ELSE IF k = 51 THEN "y" ELSE "x"]
\* the same label with the separators swapped and another 51st character
TOPIC_0ALT ==
  [k \in 1..51 |-> IF k = 2 THEN "/" ELSE IF k = 4 THEN " " ELSE IF k = 51 THEN "z" ELSE "x"]
UNKNOWN_TOPIC == <<"U", "n", "k", "n", "o", "w", "n">>

\* topic ids fit_transform can return: the noise id -1 and one topic
TopicIds == {-1, 0}
\* the results of fit_transform on n texts that are tried: every text in the
\* one topic, or every text noise
TopicResults(n) == {[k \in 1..n |-> t] : t \in TopicIds}
\* topic_model.get_topic_info().set_index("Topic")["Name"]
topic_info == [t \in {0} |-> TOPIC_0]

\* topic_info.loc[t]["Name"] if t in topic_info.index else "Unknown"
topic_name(t) == IF t \in DOMAIN topic_info THEN topic_info[t] ELSE UNKNOWN_TOPIC

(* ------------------------------- state --------------------------------- *)
VARIABLES
  folder,          \* source folder: file name -> content
  hashFile,        \* logs/hashes.json
  resultsFile,     \* logs/results_cache.json
  indexFile,       \* index.txt / index.csv
  dup_log,         \* logs/duplicates.log
  unreadable_log,  \* logs/unreadable.log
  error_log,       \* logs/errors.log
  copies,          \* shutil.copy calls of the current run: <<source, destination>>
  bookmarks,       \* lines appended to bookmarks.txt files in the current run
  runs, edits,     \* environment counters
  prev,            \* how the previous run ended and the folder it saw
  pc, error,       \* position of main() and the exception that ended it
  pdf_paths, seen_hashes, results_cache, index_entries, used_paths,
  to_process, results, docs, topic_names, i, fails,
  extracted,       \* paths process_pdf was called with in the current run
  tm_calls,        \* argument of every fit_transform call of the current run
  loaded_hashes,   \* what load_hash_cache returned
  loaded_results   \* what load_results_cache returned

diskVars == <<folder, hashFile, resultsFile, indexFile>>
logVars  == <<dup_log, unreadable_log, error_log>>
envVars  == <<runs, edits, prev>>
memVars  == <<pdf_paths, seen_hashes, results_cache, index_entries, used_paths,
              to_process, results, docs, topic_names, i, fails>>
obsVars  == <<copies, bookmarks, extracted, tm_calls, loaded_hashes, loaded_results>>
vars == <<diskVars, logVars, envVars, pc, error, memVars, obsVars>>

Missing   == [kind |-> "missing"]
Malformed == [kind |-> "malformed"]
Json(d)   == [kind |-> "json", data |-> d]

EmptyMap == [n \in {} |-> {}]

\* os.path.join(SOURCE_FOLDER, f)
src_path(f) == <<SOURCE_FOLDER, f>>

\* [f for f in os.listdir(SOURCE_FOLDER) if f.lower().endswith('.pdf')], joined
list_pdf_paths(dir) ==
  LET present == SelectSeq(AllNames, LAMBDA f : f \in DOMAIN dir /\ IsPdf(f))
  IN [k \in 1..Len(present) |-> src_path(present[k])]

\* to_process without the cache filter
ToProcess_all(paths, cache) == paths

\* [p for p in pdf_paths if os.path.basename(p) not in results_cache]
ToProcess(paths, cache) ==
  SelectSeq(paths, LAMBDA p : basename(p) \notin DOMAIN cache)

SeqToSet(s) == {s[k] : k \in 1..Len(s)}

\* the zip of lines 168-171: one (path, text, language, hash) per input file
build_docs(paths, cache) ==
  [k \in 1..Len(paths) |->
     [path |-> paths[k],
      text |-> cache[basename(paths[k])].text,
      language |-> cache[basename(paths[k])].language,
      hash |-> cache[basename(paths[k])].hash]]

\* fit_transform on the readable texts only
TopicInput_readable(ds) ==
  LET kept == SelectSeq(ds, LAMBDA d : d.text # <<>>) IN [k \in 1..Len(kept) |-> kept[k].text]

\* the texts handed to topic_model.fit_transform
TopicInput(ds) == [k \in 1..Len(ds) |-> ds[k].text]

\* not texts[i] or hashes[i] is None
IsUnreadable(d) == d.text = <<>> \/ d.hash = NoneHash

\* the membership test made on the path instead of the hash
IsDuplicate_by_path(d, seen) == d.path \in seen

\* hashes[i] in seen_hashes
IsDuplicate(d, seen) == d.hash \in seen

\* save_hash_cache writing an empty list
hash_cache_json_empty(hashes) == Json({})

\* json.dump(list(hashes), f)
hash_cache_json(hashes) == Json(hashes)

\* the entry appended to index_entries
index_entry(d, topic, final_path) ==
  [file |-> basename(d.path), language |-> d.language, topic |-> topic, path |-> final_path]

ResetMem ==
  /\ pdf_paths' = <<>> /\ seen_hashes' = {} /\ results_cache' = EmptyMap
  /\ index_entries' = <<>> /\ used_paths' = {} /\ to_process' = <<>>
  /\ results' = EmptyMap /\ docs' = <<>> /\ topic_names' = <<>> /\ i' = 0 /\ fails' = 0

ResetObs ==
  /\ copies' = {} /\ bookmarks' = <<>> /\ extracted' = {} /\ tm_calls' = <<>>
  /\ loaded_hashes' = {} /\ loaded_results' = EmptyMap

Init ==
  /\ folder \in {d @@ (F_N :> NOTE_FILE) :
                   d \in UNION {[S -> Contents] : S \in SUBSET PdfNames}}
  /\ hashFile = Missing /\ resultsFile = Missing /\ indexFile = Missing
  /\ dup_log = {} /\ unreadable_log = {} /\ error_log = {}
  /\ runs = 0 /\ edits = 0
  /\ prev = [completed |-> FALSE, folder |-> EmptyMap]
  /\ pc = "idle" /\ error = "none"
  /\ pdf_paths = <<>> /\ seen_hashes = {} /\ results_cache = EmptyMap
  /\ index_entries = <<>> /\ used_paths = {} /\ to_process = <<>>
  /\ results = EmptyMap /\ docs = <<>> /\ topic_names = <<>> /\ i = 0 /\ fails = 0
  /\ copies = {} /\ bookmarks = <<>> /\ extracted = {} /\ tm_calls = <<>>
  /\ loaded_hashes = {} /\ loaded_results = EmptyMap

(* ------------------------------ main() --------------------------------- *)
\* Process start up to line 155: the log files are truncated, the folder is
\* listed, both caches are loaded.  json.load raises on a malformed file.
Start ==
  /\ pc = "idle" /\ runs < MaxRuns
  /\ runs' = runs + 1
  /\ dup_log' = {} /\ unreadable_log' = {} /\ error_log' = {}
  /\ copies' = {} /\ bookmarks' = <<>> /\ extracted' = {} /\ tm_calls' = <<>>
  /\ index_entries' = <<>> /\ used_paths' = {} /\ results' = EmptyMap
  /\ docs' = <<>> /\ topic_names' = <<>> /\ i' = 0 /\ fails' = 0
  /\ UNCHANGED <<diskVars, edits, prev>>
  /\ IF hashFile.kind = "malformed" \/ resultsFile.kind = "malformed"
     THEN /\ pc' = "crashed" /\ error' = "JSONDecodeError"
          /\ pdf_paths' = list_pdf_paths(folder)
          /\ seen_hashes' = {} /\ results_cache' = EmptyMap /\ to_process' = <<>>
          /\ loaded_hashes' = {} /\ loaded_results' = EmptyMap
     ELSE /\ pc' = "extract" /\ error' = "none"
          /\ pdf_paths' = list_pdf_paths(folder)
          /\ seen_hashes' = IF hashFile.kind = "json" THEN hashFile.data ELSE {}
          /\ results_cache' = IF resultsFile.kind = "json" THEN resultsFile.data ELSE EmptyMap
          /\ to_process' = ToProcess(pdf_paths', results_cache')
          /\ loaded_hashes' = seen_hashes' /\ loaded_results' = results_cache'

\* One worker of executor.map(process_pdf, to_process): the workers run in
\* parallel, so the files are processed in any order.
ExtractOne(p) ==
  /\ pc = "extract"
  /\ p \in SeqToSet(to_process) /\ p \notin DOMAIN results
  /\ LET c == folder[basename(p)]
         r == process_pdf(c)
     IN /\ results' = (p :> r) @@ results
        /\ extracted' = extracted \cup {p}
        /\ unreadable_log' = IF r.hash = NoneHash THEN unreadable_log \cup {p} ELSE unreadable_log
        /\ error_log' =
             error_log
               \cup (IF extract_text(c).failed THEN {<<"extract", p>>} ELSE {})
               \cup (IF r.hash # NoneHash /\ DetectRaises(r.text) THEN {<<"langdetect", p>>} ELSE {})
  /\ UNCHANGED <<diskVars, dup_log, envVars, pc, error, pdf_paths, seen_hashes,
                 results_cache, index_entries, used_paths, to_process, docs,
                 topic_names, i, fails, copies, bookmarks, tm_calls,
                 loaded_hashes, loaded_results>>

\* results_cache after the loop of lines 159-164
merge_results(cache, todo, res) ==
  [n \in DOMAIN cache \cup {basename(p) : p \in SeqToSet(todo)} |->
     IF src_path(n) \in SeqToSet(todo) THEN res[src_path(n)] ELSE cache[n]]

\* Lines 157-171: the pool is joined, every result is stored in the result
\* cache, the cache is saved, and the per-file columns are unzipped.  Unpacking
\* zip(*[]) into four names raises ValueError when there is no input file.
Collect ==
  /\ pc = "extract"
  /\ \A p \in SeqToSet(to_process) : p \in DOMAIN results
  /\ results_cache' = merge_results(results_cache, to_process, results)
  /\ resultsFile' = Json(results_cache')
  /\ IF pdf_paths = <<>>
     THEN /\ pc' = "crashed" /\ error' = "ValueError" /\ docs' = <<>>
     ELSE /\ pc' = "topic" /\ error' = "none"
          /\ docs' = build_docs(pdf_paths, results_cache')
  /\ UNCHANGED <<folder, hashFile, indexFile, logVars, envVars, pdf_paths, seen_hashes,
                 index_entries, used_paths, to_process, results, topic_names, i, fails,
                 obsVars>>

\* Lines 173-179: the single fit_transform call and the label lookup.
TopicModel ==
  /\ pc = "topic"
  /\ tm_calls' = Append(tm_calls, TopicInput(docs))
  /\ \E topics \in TopicResults(Len(docs)) :
       topic_names' = [k \in 1..Len(docs) |-> topic_name(topics[k])]
  /\ pc' = "place" /\ i' = 1
  /\ UNCHANGED <<diskVars, logVars, envVars, error, pdf_paths, seen_hashes, results_cache,
                 index_entries, used_paths, to_process, results, docs, fails,
                 copies, bookmarks, extracted, loaded_hashes, loaded_results>>

\* The bulk call raises: nothing catches it, the run ends.
TopicModelFail ==
  /\ pc = "topic"
  /\ tm_calls' = Append(tm_calls, TopicInput(docs))
  /\ pc' = "crashed" /\ error' = "TopicModelError"
  /\ UNCHANGED <<diskVars, logVars, envVars, memVars,
                 copies, bookmarks, extracted, loaded_hashes, loaded_results>>

InLoop == pc = "place" /\ i \in 1..Len(docs)

\* Lines 183-184
PlaceSkip ==
  /\ InLoop /\ IsUnreadable(docs[i])
  /\ i' = i + 1
  /\ UNCHANGED <<diskVars, logVars, envVars, pc, error, pdf_paths, seen_hashes, results_cache,
                 index_entries, used_paths, to_process, results, docs, topic_names, fails,
                 obsVars>>

\* Lines 186-188
PlaceDup ==
  /\ InLoop /\ ~IsUnreadable(docs[i]) /\ IsDuplicate(docs[i], seen_hashes)
  /\ dup_log' = dup_log \cup {docs[i].path}
  /\ i' = i + 1
  /\ UNCHANGED <<diskVars, unreadable_log, error_log, envVars, pc, error, pdf_paths,
                 seen_hashes, results_cache, index_entries, used_paths, to_process,
                 results, docs, topic_names, fails, obsVars>>

CanPlace == InLoop /\ ~IsUnreadable(docs[i]) /\ ~IsDuplicate(docs[i], seen_hashes)

\* Lines 189-198, move_pdf returning
PlaceOK ==
  /\ CanPlace
  /\ LET d == docs[i]
         folder_ == dest_folder_of(d.language, topic_names[i])
         final_path == get_unique_path(folder_, basename(d.path), used_paths)
     IN /\ seen_hashes' = seen_hashes \cup {d.hash}
        /\ used_paths' = used_paths \cup {final_path}
        /\ copies' = copies \cup {<<d.path, final_path>>}
        /\ bookmarks' = Append(bookmarks, <<folder_, basename(d.path)>>)
        /\ index_entries' = Append(index_entries, index_entry(d, topic_names[i], final_path))
  /\ i' = i + 1
  /\ UNCHANGED <<diskVars, logVars, envVars, pc, error, pdf_paths, results_cache,
                 to_process, results, docs, topic_names, fails,
                 extracted, tm_calls, loaded_hashes, loaded_results>>

FailStages == {"makedirs", "copy", "bookmark"}

\* Lines 189-200, move_pdf raising in os.makedirs (before the path is
\* reserved), in shutil.copy (after it) or in the bookmark write (after the copy)
PlaceFail(stage) ==
  /\ CanPlace /\ fails < MaxFails
  /\ LET d == docs[i]
         folder_ == dest_folder_of(d.language, topic_names[i])
         final_path == get_unique_path(folder_, basename(d.path), used_paths)
     IN /\ seen_hashes' = seen_hashes \cup {d.hash}
        /\ used_paths' = IF stage = "makedirs" THEN used_paths ELSE used_paths \cup {final_path}
        /\ copies' = IF stage = "bookmark" THEN copies \cup {<<d.path, final_path>>} ELSE copies
        /\ error_log' = error_log \cup {<<"move", d.path>>}
  /\ i' = i + 1 /\ fails' = fails + 1
  /\ UNCHANGED <<diskVars, dup_log, unreadable_log, envVars, pc, error, pdf_paths,
                 results_cache, index_entries, to_process, results, docs, topic_names,
                 bookmarks, extracted, tm_calls, loaded_hashes, loaded_results>>

\* Lines 202-203: write_index, save_hash_cache
Persist ==
  /\ pc = "place" /\ i > Len(docs)
  /\ indexFile' = Json(index_entries)
  /\ hashFile' = hash_cache_json(seen_hashes)
  /\ pc' = "done"
  /\ UNCHANGED <<folder, resultsFile, logVars, envVars, error, memVars, obsVars>>

\* The process exits: its memory is gone, the files stay.
Exit ==
  /\ pc \in {"done", "crashed"}
  /\ pc' = "idle" /\ error' = "none"
  /\ prev' = IF pc = "done" THEN [completed |-> TRUE, folder |-> folder]
             ELSE [completed |-> FALSE, folder |-> EmptyMap]
  /\ ResetMem /\ ResetObs
  /\ UNCHANGED <<diskVars, logVars, runs, edits>>

(* ---------------------------- environment ------------------------------ *)
\* a run has ended and another one will start
BetweenRuns == pc = "idle" /\ runs \in 1..(MaxRuns - 1)

\* Between two runs a PDF is added or replaced.
PutFile(f, c) ==
  /\ BetweenRuns /\ edits < MaxEdits
  /\ folder' = (f :> c) @@ folder
  /\ folder' # folder
  /\ edits' = edits + 1
  /\ UNCHANGED <<hashFile, resultsFile, indexFile, logVars, runs, prev, pc, error,
                 memVars, obsVars>>

\* Between two runs a PDF is removed.
RemoveFile(f) ==
  /\ BetweenRuns /\ edits < MaxEdits
  /\ f \in DOMAIN folder
  /\ folder' = [n \in DOMAIN folder \ {f} |-> folder[n]]
  /\ edits' = edits + 1
  /\ UNCHANGED <<hashFile, resultsFile, indexFile, logVars, runs, prev, pc, error,
                 memVars, obsVars>>

\* Between two runs a cache file is damaged (a truncated write, an edit).
CorruptHashFile ==
  /\ BetweenRuns /\ edits < MaxEdits /\ hashFile.kind = "json"
  /\ hashFile' = Malformed
  /\ edits' = edits + 1
  /\ UNCHANGED <<folder, resultsFile, indexFile, logVars, runs, prev, pc, error,
                 memVars, obsVars>>

CorruptResultsFile ==
  /\ BetweenRuns /\ edits < MaxEdits /\ resultsFile.kind = "json"
  /\ resultsFile' = Malformed
  /\ edits' = edits + 1
  /\ UNCHANGED <<folder, hashFile, indexFile, logVars, runs, prev, pc, error,
                 memVars, obsVars>>

Next ==
  \/ Start
  \/ \E p \in SeqToSet(to_process) : ExtractOne(p)
  \/ Collect
  \/ TopicModel
  \/ TopicModelFail
  \/ PlaceSkip
  \/ PlaceDup
  \/ PlaceOK
  \/ \E stage \in FailStages : PlaceFail(stage)
  \/ Persist
  \/ Exit
  \/ \E f \in PdfNames, c \in Contents : PutFile(f, c)
  \/ \E f \in PdfNames : RemoveFile(f)
  \/ CorruptHashFile
  \/ CorruptResultsFile

Spec == Init /\ [][Next]_vars


(* ---------------- the placement engine on any sequence ----------------- *)
\* The placement loop of lines 182-200 started on any sequence of
\* (language, topic, filename) of at most MaxPlace documents with pairwise
\* different texts, so that every document reaches move_pdf.
PlaceNames  == {F_A, F_A1}
PlaceLangs  == {"en", "unknown"}
PlaceTopics == {TOPIC_0, TOPIC_0ALT}

PlaceDoc(k, name, lang) ==
  [path |-> src_path(name), text |-> <<"d", Digit(k)>>, language |-> lang,
   hash |-> hash_text(<<"d", Digit(k)>>)]

InitPlace ==
  /\ \E n \in 1..MaxPlace :
       \E names \in [1..n -> PlaceNames], langs \in [1..n -> PlaceLangs],
          tops \in [1..n -> PlaceTopics] :
         /\ docs = [k \in 1..n |-> PlaceDoc(k, names[k], langs[k])]
         /\ topic_names = tops
         /\ pdf_paths = [k \in 1..n |-> src_path(names[k])]
  /\ folder = (F_N :> NOTE_FILE)
  /\ hashFile = Missing /\ resultsFile = Missing /\ indexFile = Missing
  /\ dup_log = {} /\ unreadable_log = {} /\ error_log = {}
  /\ runs = 1 /\ edits = 0
  /\ prev = [completed |-> FALSE, folder |-> EmptyMap]
  /\ pc = "place" /\ error = "none" /\ i = 1 /\ fails = 0
  /\ seen_hashes = {} /\ results_cache = EmptyMap
  /\ index_entries = <<>> /\ used_paths = {} /\ to_process = <<>>
  /\ results = EmptyMap
  /\ copies = {} /\ bookmarks = <<>> /\ extracted = {} /\ tm_calls = <<>>
  /\ loaded_hashes = {} /\ loaded_results = EmptyMap

NextPlace ==
  \/ PlaceOK
  \/ \E stage \in FailStages : PlaceFail(stage)
  \/ Persist

SpecPlace == InitPlace /\ [][NextPlace]_vars


(* ------------------------------ claims --------------------------------- *)
\* main() got past the unzip of lines 168-171
Ran == pc \in {"topic", "place", "done"}

Indexed(d) == \E e \in 1..Len(index_entries) : index_entries[e].file = basename(d.path)
Copied(d) == \E c \in copies : c[1] = d.path
Seen(k) == docs[k].hash \in loaded_hashes \/ \E j \in 1..(k - 1) : docs[j].hash = docs[k].hash

\* C1: a document whose fingerprint is in the Hash Set loaded at the start of
\* the run, or is the fingerprint of a document earlier in input order, never
\* gets an Index Entry and is never copied; of two files with the same
\* extracted text only the first in input order can appear in the index, in
\* memory and in the index file the run writes.
C1_DuplicateNeverIndexed ==
  /\ \A k \in 1..Len(docs) : Seen(k) => ~Indexed(docs[k]) /\ ~Copied(docs[k])
  /\ \A k \in 1..Len(docs) : \A j \in 1..(k - 1) :
       docs[j].text = docs[k].text => ~Indexed(docs[k])
  /\ pc = "done" =>
       \A k \in 1..Len(docs) : Seen(k) =>
         \A e \in 1..Len(indexFile.data) : indexFile.data[e].file # basename(docs[k].path)

\* a finished run in which the first of two files with the same text was
\* indexed and copied and the second was logged as a duplicate
C1_Witness ==
  /\ pc = "done"
  /\ \E k \in 1..Len(docs) : \E j \in 1..(k - 1) :
       /\ docs[j].hash = docs[k].hash /\ docs[k].hash # NoneHash
       /\ Indexed(docs[j]) /\ Copied(docs[j]) /\ docs[k].path \in dup_log

\* C5: once extraction is over, process_pdf has been called for exactly the
\* input files whose name had no entry in the Result Cache loaded at the start
\* of the run; a cached name keeps its cached text, language and hash, also
\* when the file changed; a run over the folder the previous completed run saw
\* calls process_pdf for no file.
C5_ExtractIffNotCached ==
  Ran =>
    /\ extracted = {p \in SeqToSet(pdf_paths) : basename(p) \notin DOMAIN loaded_results}
    /\ \A k \in 1..Len(docs) :
         basename(docs[k].path) \in DOMAIN loaded_results =>
           /\ docs[k].text = loaded_results[basename(docs[k].path)].text
           /\ docs[k].language = loaded_results[basename(docs[k].path)].language
           /\ docs[k].hash = loaded_results[basename(docs[k].path)].hash
    /\ (prev.completed /\ prev.folder = folder) => extracted = {}

\* a run over a folder in which a file was replaced since it was cached: it
\* is not extracted and keeps its stale cached text, while another file of the
\* folder keeps a cached text that is still right
C5_Witness ==
  /\ Ran /\ extracted = {}
  /\ \E k \in 1..Len(docs) :
       /\ basename(docs[k].path) \in DOMAIN loaded_results
       /\ docs[k].text # process_pdf(folder[basename(docs[k].path)]).text
  /\ \E k \in 1..Len(docs) :
       /\ basename(docs[k].path) \in DOMAIN loaded_results
       /\ docs[k].text # <<>>
       /\ docs[k].text = process_pdf(folder[basename(docs[k].path)]).text

\* the original C7: the texts of the single fit_transform call hold no empty
\* text, no text whose hash is in the loaded Hash Set, and no repeated text
C7_DeduplicatedInput ==
  pc \in {"place", "done"} =>
    /\ Len(tm_calls) = 1
    /\ \A k \in 1..Len(tm_calls[1]) :
         /\ tm_calls[1][k] # <<>>
         /\ hash_text(tm_calls[1][k]) \notin loaded_hashes
         /\ \A j \in 1..(k - 1) : tm_calls[1][j] # tm_calls[1][k]

\* C7 as amended: fit_transform is called at most once in a run and exactly
\* once before placement starts, after every process_pdf call of the run has
\* returned and the Result Cache was saved, and before anything is placed; its
\* argument is the cached or extracted text of every input file, one per
\* file in input order, empty texts and duplicates included.
C7_OneBulkCallOverAllTexts ==
  /\ Len(tm_calls) <= 1
  /\ pc \in {"place", "done"} =>
       /\ Len(tm_calls) = 1
       /\ Len(tm_calls[1]) = Len(pdf_paths)
       /\ \A k \in 1..Len(pdf_paths) :
            tm_calls[1][k] = results_cache[basename(pdf_paths[k])].text
  /\ tm_calls # <<>> =>
       /\ extracted = SeqToSet(to_process)
       /\ resultsFile = Json(results_cache)
  /\ pc \in {"extract", "topic"} =>
       /\ copies = {} /\ index_entries = <<>> /\ used_paths = {} /\ bookmarks = <<>>
       /\ seen_hashes = loaded_hashes

\* a finished run whose fit_transform call got an empty text and the same text
\* twice, and that placed a document afterwards
C7_Witness ==
  /\ pc = "done" /\ Len(tm_calls) = 1 /\ index_entries # <<>>
  /\ \E k \in 1..Len(tm_calls[1]) : tm_calls[1][k] = <<>>
  /\ \E k \in 1..Len(tm_calls[1]) : \E j \in 1..(k - 1) :
       tm_calls[1][j] = tm_calls[1][k] /\ tm_calls[1][k] # <<>>

\* C10: a completed run over the folder the previous completed run saw logs
\* every readable document as a duplicate, copies nothing, creates no Index
\* Entry, persists the Hash Set it loaded and writes an index of zero entries.
C10_RerunPlacesNothing ==
  (pc = "done" /\ prev.completed /\ prev.folder = folder) =>
    /\ \A k \in 1..Len(docs) : ~IsUnreadable(docs[k]) => docs[k].path \in dup_log
    /\ copies = {} /\ bookmarks = <<>> /\ index_entries = <<>>
    /\ hashFile = Json(loaded_hashes)
    /\ indexFile = Json(<<>>)

\* the second of two completed runs over the same folder with a readable
\* document in it
C10_Witness ==
  /\ pc = "done" /\ prev.completed /\ prev.folder = folder
  /\ \E k \in 1..Len(docs) : ~IsUnreadable(docs[k])
  /\ loaded_hashes # {}


\* C3: a run over a folder without PDF files, with no damaged cache file, goes
\* through every stage, writes an index of zero entries and raises or logs no
\* error.
C3_EmptyFolderCompletes ==
  (pdf_paths = <<>> /\ error # "JSONDecodeError") =>
    /\ pc # "crashed" /\ error = "none" /\ error_log = {}
    /\ pc = "done" => indexFile = Json(<<>>)

\* C4: a cache file that exists but is malformed is loaded as the empty
\* mapping or the empty set; reading it never ends the run.
C4_MalformedCacheIsMiss ==
  (pc # "idle" /\ (hashFile.kind = "malformed" \/ resultsFile.kind = "malformed")) =>
    /\ pc # "crashed" /\ error = "none"

\* C6: the persisted Result Cache holds an entry only for a file whose
\* extraction succeeded: no entry has an empty text or no hash.
C6_OnlySuccessCached ==
  resultsFile.kind = "json" =>
    \A n \in DOMAIN resultsFile.data :
      resultsFile.data[n].text # <<>> /\ resultsFile.data[n].hash # NoneHash

\* the documents whose placement raised in the current run
FailedMoves == {d \in SeqToSet(docs) : <<"move", d.path>> \in error_log}

\* The placement loop of lines 182-200 on the documents ds with labels ts, from
\* document k on, every move_pdf call returning.
RECURSIVE place_all(_, _, _, _, _, _)
place_all(ds, ts, k, seen, used, entries) ==
  IF k > Len(ds) THEN entries
  ELSE IF IsUnreadable(ds[k]) \/ IsDuplicate(ds[k], seen)
       THEN place_all(ds, ts, k + 1, seen, used, entries)
       ELSE LET final_path == get_unique_path(dest_folder_of(ds[k].language, ts[k]),
                                              basename(ds[k].path), used)
            IN place_all(ds, ts, k + 1, seen \cup {ds[k].hash}, used \cup {final_path},
                         Append(entries, index_entry(ds[k], ts[k], final_path)))

\* positions of the documents whose placement did not raise
KeptPositions == {k \in 1..Len(docs) : docs[k] \notin FailedMoves}
RECURSIVE Pick(_, _, _)
Pick(s, keep, k) ==
  IF k > Len(s) THEN <<>>
  ELSE (IF k \in keep THEN <<s[k]>> ELSE <<>>) \o Pick(s, keep, k + 1)

\* C8: a document whose placement raises gets no Index Entry, the failure is
\* logged, the loop goes on to the index and the Hash Cache, and the Index
\* Entries of the run are those of the same run without the failing
\* documents.
C8_FailureIsIsolated ==
  /\ \A d \in FailedMoves : ~Indexed(d)
  /\ pc = "done" =>
       /\ indexFile = Json(index_entries) /\ hashFile.kind = "json"
       /\ index_entries =
            place_all(Pick(docs, KeptPositions, 1), Pick(topic_names, KeptPositions, 1),
                      1, loaded_hashes, {}, <<>>)

\* C9: when a run has completed, every hash it added to the persisted Hash Set
\* is the hash of a document with an Index Entry of that run.
C9_NewHashMeansPlaced ==
  pc = "done" =>
    \A h \in hashFile.data \ loaded_hashes :
      \E k \in 1..Len(docs) : docs[k].hash = h /\ Indexed(docs[k])


\* the n-th candidate of the collision resolver: the name itself, then the
\* name with _1, _2, ... before its extension
Candidate(dest_folder, file_name, n) ==
  IF n = 0 THEN JoinPath(dest_folder, file_name)
  ELSE JoinPath(dest_folder,
                splitext(file_name).base \o <<"_">> \o Str(n) \o splitext(file_name).ext)

NoSharedPath ==
  \A j, k \in 1..Len(index_entries) :
    j # k => index_entries[j].path # index_entries[k].path

\* a step of the placement loop that reserves a path or adds an Index Entry
ReservesFreshPath ==
  (used_paths' # used_paths \/ index_entries' # index_entries) =>
    \E n \in 0..Cardinality(used_paths) :
      LET p == Candidate(dest_folder_of(docs[i].language, topic_names[i]),
                         basename(docs[i].path), n)
      IN /\ p \notin used_paths
         /\ \A m \in 0..(n - 1) :
              Candidate(dest_folder_of(docs[i].language, topic_names[i]),
                        basename(docs[i].path), m) \in used_paths
         /\ used_paths' = used_paths \cup {p}
         /\ index_entries' # index_entries =>
              /\ Len(index_entries') = Len(index_entries) + 1
              /\ index_entries'[Len(index_entries')].path = p
              /\ SubSeq(index_entries', 1, Len(index_entries)) = index_entries

\* C2: at every point of the placement loop no two Index Entries have the same
\* destination path, and every step that reserves a path takes the first of
\* name, name_1, name_2, ... (suffix before the extension) that was not in the
\* used-path set, adds it to the set, and gives it to the Index Entry if one
\* is made; this for any sequence of (language, topic, filename), placements
\* that raise after the reservation included.
C2_UniqueDestinations == []NoSharedPath /\ [][ReservesFreshPath]_vars

\* two Index Entries of the same file name in the same folder, reached under
\* different topic labels, after a placement that raised with its path reserved
C2_Witness ==
  /\ Cardinality(used_paths) > Len(index_entries)
  /\ \E j, k \in 1..Len(index_entries) :
       /\ j < k
       /\ index_entries[j].file = index_entries[k].file
       /\ SubSeq(index_entries[j].path, 1, 3) = SubSeq(index_entries[k].path, 1, 3)
       /\ index_entries[j].topic # index_entries[k].topic

====
